---------------------------- MODULE Spec2Model ----------------------------
(***************************************************************************)
(* A model of the salary-countdown server (src/routes.ts, src/storage.ts,  *)
(* src/mongoModels.ts, src/unnamed/part_000).                              *)
(*                                                                         *)
(* State: the two MongoDB collections (settings, sessions), the wall       *)
(* clock read by `new Date()` / `Date.now`, and one record per request in  *)
(* flight holding the handler's position and locals.  Every `await` of a   *)
(* handler is an interleaving point: a handler runs atomically from one    *)
(* store operation to the next.  `storage` is the MongoStorage instance    *)
(* (src/storage.ts:324), so the store operations are MongoStorage's: each  *)
(* may fault, and the methods that catch the fault return undefined.       *)
(*                                                                         *)
(* Numbers: JavaScript doubles are modelled by exact rationals <<n, d>>    *)
(* (d > 0, lowest terms), with <<1, 0>>, <<-1, 0>> and <<0, 0>> for        *)
(* Infinity, -Infinity and NaN; money and rates that the code rounds to    *)
(* two decimals are integers in hundredths, with two reserved values for   *)
(* Infinity and NaN; timestamps are integers in milliseconds.  Document    *)
(* ids are the insertion index in the collection.                          *)
(***************************************************************************)
EXTENDS Integers, Sequences, FiniteSets, TLC

(***************************************************************************)
(* Bounds of the model.                                                    *)
(***************************************************************************)
NReq == 2          \* requests that can be in flight at once
MaxCfg == 1        \* user-settings documents the collection can hold
MaxSess == 2       \* income-session documents the collection can hold
MaxTicks == 1      \* the clock takes the values 0, TickMs, .., MaxTicks*TickMs
TickMs == 90000    \* milliseconds between two modelled clock values

Reqs == 1..NReq
Times == {k * TickMs : k \in 0..MaxTicks}

\* sessionEnd of a session that has not ended (undefined in the document)
NoDate == -1

(***************************************************************************)
(* Request inputs.  An optional value is a sequence: <<>> when the field   *)
(* is absent, <<v>> when it is present.                                    *)
(***************************************************************************)
Opt(S) == {<<>>} \cup {<<v>> : v \in S}

SalaryVals == {0, 3000, 5000}
HoursVals == {8, 25}
DaysVals == {0, 5}
EarnedVals == {4250}
CfgIdVals == 1..(MaxCfg + 1)
SessIdVals == 1..(MaxSess + 1)

SettingsBodies ==
    [monthlySalary : Opt(SalaryVals), dailyHours : Opt(HoursVals),
     weeklyDays : Opt(DaysVals), isHoliday : Opt(BOOLEAN)]

(***************************************************************************)
(* Arithmetic on rationals, standing for the double arithmetic of the      *)
(* handlers.                                                               *)
(***************************************************************************)
Abs(x) == IF x < 0 THEN -x ELSE x

RECURSIVE GCD(_, _)
GCD(a, b) == IF b = 0 THEN a ELSE GCD(b, a % b)

\* the values a division by zero produces
NaNRat == <<0, 0>>
IsNaN(x) == x = NaNRat
IsFinite(x) == x[2] # 0

\* the rational n/d in lowest terms with a positive denominator; n/0 is
\* Infinity or -Infinity by the sign of n, and 0/0 is NaN
Rat(n, d) ==
    IF n = 0 /\ d = 0 THEN NaNRat
    ELSE LET s == IF d < 0 THEN -1 ELSE 1
             g == GCD(Abs(n), Abs(d))
         IN  <<(s * n) \div g, (s * d) \div g>>

\* a * b; NaN * x is NaN, and so is Infinity * 0
RatMul(a, b) ==
    IF \/ IsNaN(a) \/ IsNaN(b)
       \/ (~IsFinite(a) /\ b[1] = 0)
       \/ (~IsFinite(b) /\ a[1] = 0)
    THEN NaNRat
    ELSE LET g1 == GCD(Abs(a[1]), b[2])
             g2 == GCD(Abs(b[1]), a[2])
         IN  Rat((a[1] \div g1) * (b[1] \div g2), (a[2] \div g2) * (b[2] \div g1))

\* a / b; x / 0 is Infinity for x > 0 and NaN for x = 0
RatDiv(a, b) == RatMul(a, Rat(b[2], b[1]))

\* the integer n as a rational
IntRat(n) == <<n, 1>>

\* floor(|x| + 1/2) for a rational x
RoundMagnitude(x) ==
    LET n == Abs(x[1])
        q == n \div x[2]
        r == n % x[2]
    IN  IF r >= x[2] - r THEN q + 1 ELSE q

\* Infinity and NaN as amounts in hundredths: two values no finite amount
\* of the model reaches (-Infinity is -Infinity)
Infinity == 2000000000
NaN == 2000000001

\* the amount a rounding leaves of a value that is not finite: itself
NotFinite(x) == IF IsNaN(x) THEN NaN ELSE x[1] * Infinity

\* Math.round(x * 100) / 100, in hundredths: floor(100x + 1/2)
MathRound100(x) ==
    IF ~IsFinite(x) THEN NotFinite(x)
    ELSE LET y == RatMul(x, IntRat(100))
             q == y[1] \div y[2]
             r == y[1] % y[2]
         IN  IF r >= y[2] - r THEN q + 1 ELSE q

\* the value cut after two decimals instead of rounded
Truncated2(x) ==
    IF ~IsFinite(x) THEN NotFinite(x)
    ELSE LET y == RatMul(x, IntRat(100))
             m == Abs(y[1]) \div y[2]
         IN  IF x[1] < 0 THEN -m ELSE m

\* parseFloat(x.toFixed(2)), in hundredths: toFixed rounds the magnitude,
\* ties upward, and keeps the sign; "Infinity" and "NaN" parse to themselves
ToFixed2(x) ==
    IF ~IsFinite(x) THEN NotFinite(x)
    ELSE LET m == RoundMagnitude(RatMul(x, IntRat(100)))
         IN  IF x[1] < 0 THEN -m ELSE m


(***************************************************************************)
(* The rate and settlement computations of the handlers.                   *)
(***************************************************************************)
\* a month of four weeks
FourWeeks == Rat(4, 1)

\* 4.33, the average number of weeks in a month
WeeksPerMonth == Rat(433, 100)

\* settings.dailyHours * settings.weeklyDays * 4.33
MonthlyHours(s) ==
    RatMul(RatMul(IntRat(s.dailyHours), IntRat(s.weeklyDays)), WeeksPerMonth)

\* the salary over the hours of one week
HourlyRateOfWeek(s) ==
    RatDiv(IntRat(s.monthlySalary),
           RatMul(IntRat(s.dailyHours), IntRat(s.weeklyDays)))

\* settings.monthlySalary / monthlyHours
HourlyRate(s) == RatDiv(IntRat(s.monthlySalary), MonthlyHours(s))

\* hourlyRate / 60
MinuteRate(s) == RatDiv(HourlyRate(s), IntRat(60))

\* a daily rate taken from the hourly rate already rounded to two decimals
DailyRateFromRounded(s) ==
    RatMul(Rat(MathRound100(HourlyRate(s)), 100), IntRat(s.dailyHours))

\* hourlyRate * settings.dailyHours
DailyRate(s) == RatMul(HourlyRate(s), IntRat(s.dailyHours))

\* the body of the calculate-rates answer, each field in hundredths
Rates(s) ==
    [perMinute |-> MathRound100(MinuteRate(s)),
     perHour |-> MathRound100(HourlyRate(s)),
     perDay |-> MathRound100(DailyRate(s)),
     monthlyHours |-> MathRound100(MonthlyHours(s))]

\* the elapsed time cut to whole minutes
ElapsedWholeMinutes(now, start) == IntRat((now - start) \div 60000)

\* the elapsed time with the two instants exchanged
ElapsedReversed(now, start) ==
    RatDiv(RatDiv(IntRat(start - now), IntRat(1000)), IntRat(60))

\* elapsedMs / 1000 / 60
ElapsedMinutes(now, start) ==
    RatDiv(RatDiv(IntRat(now - start), IntRat(1000)), IntRat(60))

\* parseFloat((elapsedMinutes * (hourlyRate / 60)).toFixed(2)), in hundredths
Earned(s, now, start) ==
    ToFixed2(RatMul(ElapsedMinutes(now, start), RatDiv(HourlyRate(s), IntRat(60))))

(***************************************************************************)
(* State.                                                                  *)
(***************************************************************************)
VARIABLES
    settings,   \* the UserSettings collection: a sequence of documents
    sessions,   \* the IncomeSession collection: a sequence of documents
    clock,      \* the wall clock, in milliseconds
    reqs        \* reqs[r]: the handler run of request slot r

vars == <<settings, sessions, clock, reqs>>

\* a request slot with no handler running
IdleReq ==
    [kind |-> "none", pc |-> "idle", id |-> 0, session |-> <<>>,
     settings |-> <<>>, now |-> 0, earned |-> 0, faulted |-> FALSE,
     status |-> 0, msg |-> "", body |-> <<>>]

\* the handler ran to its answer, res.status(status).json(...): its locals
\* are gone, the answer stays until it is delivered
Answer(q, status, msg, body) ==
    [IdleReq EXCEPT !.kind = q.kind, !.id = q.id, !.faulted = q.faulted,
                    !.pc = "done", !.status = status, !.msg = msg, !.body = body]

\* a store operation of this request threw inside MongoStorage or mongoose
Faulted(q, fault) == [q EXCEPT !.faulted = q.faulted \/ fault]

(***************************************************************************)
(* Validation (zod).                                                       *)
(***************************************************************************)
\* a required z.number() field: present (a missing one fails the parse)
Present(f) == f # <<>>

\* .min(lo) on a field, when it is present
Min(f, lo) == f = <<>> \/ f[1] >= lo

\* the upper bound with the comparison turned round
MaxTurned(f, hi) == f = <<>> \/ f[1] >= hi

\* .max(hi) on a field, when it is present
Max(f, hi) == f = <<>> \/ f[1] <= hi

\* insertUserSettingsSchema.partial().parse(body) succeeds: every field is
\* optional, and a field that is given is in its range
ValidPartial(b) ==
    /\ Min(b.monthlySalary, 1)
    /\ Min(b.dailyHours, 1) /\ Max(b.dailyHours, 24)
    /\ Min(b.weeklyDays, 1) /\ Max(b.weeklyDays, 7)

\* insertUserSettingsSchema.parse(body) succeeds: the three numbers are
\* required, isHoliday is optional
ValidInsert(b) ==
    /\ Present(b.monthlySalary) /\ Present(b.dailyHours) /\ Present(b.weeklyDays)
    /\ ValidPartial(b)

(***************************************************************************)
(* MongoStorage: the results of the store operations.  A read returns      *)
(* <<>> for undefined and <<doc>> for a document.                          *)
(***************************************************************************)
\* a lookup that ignores the id: the first document of the collection
getUserSettingsFirst(id, fault) ==
    IF fault \/ settings = <<>> THEN <<>> ELSE <<settings[1]>>

\* MongoStorage.getUserSettings, getUserSettingsById: a fault is caught
getUserSettings(id, fault) ==
    IF fault \/ id \notin DOMAIN settings THEN <<>> ELSE <<settings[id]>>

\* the document createUserSettings saves
NewSettings(b) ==
    [id |-> Len(settings) + 1,
     monthlySalary |-> b.monthlySalary[1],
     dailyHours |-> b.dailyHours[1],
     weeklyDays |-> b.weeklyDays[1],
     isHoliday |-> IF b.isHoliday = <<>> THEN FALSE ELSE b.isHoliday[1],
     createdAt |-> clock,
     updatedAt |-> clock]

\* the update with the creation default put in for an omitted isHoliday
PatchedWithDefault(doc, b) ==
    [doc EXCEPT
        !.monthlySalary = IF b.monthlySalary = <<>> THEN @ ELSE b.monthlySalary[1],
        !.dailyHours = IF b.dailyHours = <<>> THEN @ ELSE b.dailyHours[1],
        !.weeklyDays = IF b.weeklyDays = <<>> THEN @ ELSE b.weeklyDays[1],
        !.isHoliday = IF b.isHoliday = <<>> THEN FALSE ELSE b.isHoliday[1],
        !.updatedAt = clock]

\* the document findByIdAndUpdate leaves: the fields given, and updatedAt
PatchedSettings(doc, b) ==
    [doc EXCEPT
        !.monthlySalary = IF b.monthlySalary = <<>> THEN @ ELSE b.monthlySalary[1],
        !.dailyHours = IF b.dailyHours = <<>> THEN @ ELSE b.dailyHours[1],
        !.weeklyDays = IF b.weeklyDays = <<>> THEN @ ELSE b.weeklyDays[1],
        !.isHoliday = IF b.isHoliday = <<>> THEN @ ELSE b.isHoliday[1],
        !.updatedAt = clock]

\* the ids of the active sessions of a configuration
ActiveIds(uid) ==
    {i \in DOMAIN sessions :
        sessions[i].userSettingsId = uid /\ sessions[i].isActive}

\* MongoStorage.getIncomeSessionById: a fault is caught
getIncomeSessionById(id, fault) ==
    IF fault \/ id \notin DOMAIN sessions THEN <<>> ELSE <<sessions[id]>>

\* the document createIncomeSession saves; sessionStart is the default
\* Date.now taken when the document was constructed
NewSession(uid, start) ==
    [id |-> Len(sessions) + 1, userSettingsId |-> uid, sessionStart |-> start,
     sessionEnd |-> NoDate, totalEarned |-> 0, isActive |-> TRUE]

(***************************************************************************)
(* Init: both collections empty, no request in flight.                     *)
(***************************************************************************)
Init ==
    /\ settings = <<>>
    /\ sessions = <<>>
    /\ clock = 0
    /\ reqs = [r \in Reqs |-> IdleReq]

\* request slot r takes a new request of this kind
Begin(r, kind, id) == [reqs[r] EXCEPT !.kind = kind, !.id = id]

(***************************************************************************)
(* POST /api/user-settings                                                 *)
(***************************************************************************)
CreateUserSettings(r, b, fault) ==
    /\ reqs[r].pc = "idle"
    /\ LET q == Begin(r, "createUserSettings", 0) IN
       IF ~ValidInsert(b)
       THEN /\ reqs' = [reqs EXCEPT ![r] = Answer(q, 400, "Invalid input", <<>>)]
            /\ UNCHANGED settings
       ELSE IF fault
       THEN \* createUserSettings rethrows: the handler's catch answers 500
            /\ reqs' = [reqs EXCEPT ![r] =
                           Answer(Faulted(q, TRUE), 500, "Internal server error", <<>>)]
            /\ UNCHANGED settings
       ELSE /\ Len(settings) < MaxCfg
            /\ settings' = Append(settings, NewSettings(b))
            /\ reqs' = [reqs EXCEPT ![r] = Answer(q, 200, "", <<NewSettings(b)>>)]
    /\ UNCHANGED <<sessions, clock>>

(***************************************************************************)
(* GET /api/user-settings/:id                                              *)
(***************************************************************************)
GetUserSettings(r, id, fault) ==
    /\ reqs[r].pc = "idle"
    /\ LET q == Faulted(Begin(r, "getUserSettings", id), fault)
           found == getUserSettings(id, fault)
       IN  reqs' = [reqs EXCEPT ![r] =
               IF found = <<>>
               THEN Answer(q, 404, "Settings not found", <<>>)
               ELSE Answer(q, 200, "", found)]
    /\ UNCHANGED <<settings, sessions, clock>>

(***************************************************************************)
(* PATCH /api/user-settings/:id                                            *)
(***************************************************************************)
UpdateUserSettings(r, id, b, fault) ==
    /\ reqs[r].pc = "idle"
    /\ LET q == Begin(r, "updateUserSettings", id) IN
       IF ~ValidPartial(b)
       THEN /\ reqs' = [reqs EXCEPT ![r] = Answer(q, 400, "Invalid input", <<>>)]
            /\ UNCHANGED settings
       ELSE IF fault \/ id \notin DOMAIN settings
       THEN \* updateUserSettings catches the fault and returns undefined
            /\ reqs' = [reqs EXCEPT ![r] =
                           Answer(Faulted(q, fault), 404, "Settings not found", <<>>)]
            /\ UNCHANGED settings
       ELSE /\ settings' = [settings EXCEPT ![id] = PatchedSettings(@, b)]
            /\ reqs' = [reqs EXCEPT ![r] =
                           Answer(q, 200, "", <<PatchedSettings(settings[id], b)>>)]
    /\ UNCHANGED <<sessions, clock>>

(***************************************************************************)
(* POST /api/income-session: look an active session up, then create one.   *)
(***************************************************************************)
\* requests that have issued createIncomeSession and wait for the store
Creating == {q \in Reqs : reqs[q].pc = "createIncomeSession"}

\* up to the answer of getActiveSession.  findOne returns any one of the
\* matching documents; a fault is caught and gives undefined.  With no
\* session found the handler constructs the document (sessionStart defaults
\* to Date.now) and issues the save.
StartSessionLookup(r, u, fault) ==
    /\ reqs[r].pc = "idle"
    /\ LET q == Begin(r, "startSession", 0) IN
       IF u = <<>>
       THEN reqs' = [reqs EXCEPT ![r] =
                        Answer(q, 400, "User settings ID is required", <<>>)]
       ELSE IF ~fault /\ ActiveIds(u[1]) # {}
       THEN \E i \in ActiveIds(u[1]) :
                reqs' = [reqs EXCEPT ![r] =
                            Answer([q EXCEPT !.id = u[1]], 200, "", <<sessions[i]>>)]
       ELSE /\ Len(sessions) + Cardinality(Creating) < MaxSess
            /\ reqs' = [reqs EXCEPT ![r] =
                           [Faulted(q, fault) EXCEPT !.pc = "createIncomeSession",
                                                     !.id = u[1], !.now = clock]]
    /\ UNCHANGED <<settings, sessions, clock>>

\* the ended sessions of a configuration
EndedIds(uid) ==
    {i \in DOMAIN sessions :
        sessions[i].userSettingsId = uid /\ ~sessions[i].isActive}

\* the start that takes up an ended session of the configuration again
\* instead of creating one
StartSessionReactivate(r, fault) ==
    /\ reqs[r].pc = "createIncomeSession"
    /\ LET q == reqs[r] IN
       IF fault
       THEN /\ reqs' = [reqs EXCEPT ![r] =
                           Answer(Faulted(q, TRUE), 500, "Internal server error", <<>>)]
            /\ UNCHANGED sessions
       ELSE IF EndedIds(q.id) # {}
       THEN \E i \in EndedIds(q.id) :
               LET doc == [sessions[i] EXCEPT !.isActive = TRUE,
                                              !.sessionEnd = NoDate]
               IN  /\ sessions' = [sessions EXCEPT ![i] = doc]
                   /\ reqs' = [reqs EXCEPT ![r] = Answer(q, 200, "", <<doc>>)]
       ELSE /\ sessions' = Append(sessions, NewSession(q.id, q.now))
            /\ reqs' = [reqs EXCEPT ![r] =
                           Answer(q, 200, "", <<NewSession(q.id, q.now)>>)]
    /\ UNCHANGED <<settings, clock>>

\* the save of createIncomeSession; a fault is rethrown
StartSessionCreate(r, fault) ==
    /\ reqs[r].pc = "createIncomeSession"
    /\ LET q == reqs[r] IN
       IF fault
       THEN /\ reqs' = [reqs EXCEPT ![r] =
                           Answer(Faulted(q, TRUE), 500, "Internal server error", <<>>)]
            /\ UNCHANGED sessions
       ELSE /\ sessions' = Append(sessions, NewSession(q.id, q.now))
            /\ reqs' = [reqs EXCEPT ![r] =
                           Answer(q, 200, "", <<NewSession(q.id, q.now)>>)]
    /\ UNCHANGED <<settings, clock>>

(***************************************************************************)
(* GET /api/income-session/:userSettingsId                                 *)
(***************************************************************************)
GetActiveSession(r, uid, fault) ==
    /\ reqs[r].pc = "idle"
    /\ LET q == Faulted(Begin(r, "getActiveSession", uid), fault) IN
       IF fault \/ ActiveIds(uid) = {}
       THEN reqs' = [reqs EXCEPT ![r] =
                        Answer(q, 404, "No active session found", <<>>)]
       ELSE \E i \in ActiveIds(uid) :
                reqs' = [reqs EXCEPT ![r] = Answer(q, 200, "", <<sessions[i]>>)]
    /\ UNCHANGED <<settings, sessions, clock>>

(***************************************************************************)
(* PATCH /api/income-session/:id                                           *)
(***************************************************************************)
\* the update replacing the document: the fields not given fall back to the
\* schema defaults
UpdateEarningsReplacing(r, id, total, fault) ==
    /\ reqs[r].pc = "idle"
    /\ LET q == Faulted(Begin(r, "updateEarnings", id), fault)
           doc == [id |-> id, userSettingsId |-> sessions[id].userSettingsId,
                   sessionStart |-> clock, sessionEnd |-> NoDate,
                   totalEarned |-> total, isActive |-> TRUE]
       IN
       IF fault \/ id \notin DOMAIN sessions
       THEN /\ reqs' = [reqs EXCEPT ![r] = Answer(q, 404, "Session not found", <<>>)]
            /\ UNCHANGED sessions
       ELSE /\ sessions' = [sessions EXCEPT ![id] = doc]
            /\ reqs' = [reqs EXCEPT ![r] = Answer(q, 200, "", <<doc>>)]
    /\ UNCHANGED <<settings, clock>>

\* MongoStorage.updateIncomeSession(id, { totalEarned })
UpdateEarnings(r, id, total, fault) ==
    /\ reqs[r].pc = "idle"
    /\ LET q == Faulted(Begin(r, "updateEarnings", id), fault) IN
       IF fault \/ id \notin DOMAIN sessions
       THEN /\ reqs' = [reqs EXCEPT ![r] = Answer(q, 404, "Session not found", <<>>)]
            /\ UNCHANGED sessions
       ELSE /\ sessions' = [sessions EXCEPT ![id].totalEarned = total]
            /\ reqs' = [reqs EXCEPT ![r] =
                           Answer(q, 200, "", <<[sessions[id] EXCEPT !.totalEarned = total]>>)]
    /\ UNCHANGED <<settings, clock>>

(***************************************************************************)
(* DELETE /api/income-session/:id: read the session, read its settings,    *)
(* compute the earned amount, write the session.                           *)
(***************************************************************************)
\* the lookup without the isActive check: an ended session is settled again
EndSessionGetSessionAnyState(r, id, fault) ==
    /\ reqs[r].pc = "idle"
    /\ LET q == Faulted(Begin(r, "endSession", id), fault)
           found == getIncomeSessionById(id, fault)
       IN  reqs' = [reqs EXCEPT ![r] =
               IF found = <<>>
               THEN Answer(q, 404, "Active session not found", <<>>)
               ELSE [q EXCEPT !.pc = "getUserSettingsById", !.session = found]]
    /\ UNCHANGED <<settings, sessions, clock>>

\* up to the answer of getIncomeSessionById
EndSessionGetSession(r, id, fault) ==
    /\ reqs[r].pc = "idle"
    /\ LET q == Faulted(Begin(r, "endSession", id), fault)
           found == getIncomeSessionById(id, fault)
       IN  reqs' = [reqs EXCEPT ![r] =
               IF found = <<>> \/ ~found[1].isActive
               THEN Answer(q, 404, "Active session not found", <<>>)
               ELSE [q EXCEPT !.pc = "getUserSettingsById", !.session = found]]
    /\ UNCHANGED <<settings, sessions, clock>>

\* the settlement priced at the salary the configuration was created with,
\* whatever the stored document says now
EndSessionGetSettingsAsCreated(r, fault) ==
    /\ reqs[r].pc = "getUserSettingsById"
    /\ LET q == Faulted(reqs[r], fault)
           found == getUserSettings(q.session[1].userSettingsId, fault)
       IN  reqs' = [reqs EXCEPT ![r] =
               IF found = <<>>
               THEN Answer(q, 404, "User settings not found", <<>>)
               ELSE [q EXCEPT !.pc = "updateIncomeSession",
                              !.settings = found,
                              !.now = clock,
                              !.earned = Earned([found[1] EXCEPT !.monthlySalary = 5000],
                                                clock, q.session[1].sessionStart)]]
    /\ UNCHANGED <<settings, sessions, clock>>

\* up to the answer of getUserSettingsById; with the settings found the
\* handler takes now, computes earned and issues the update
EndSessionGetSettings(r, fault) ==
    /\ reqs[r].pc = "getUserSettingsById"
    /\ LET q == Faulted(reqs[r], fault)
           found == getUserSettings(q.session[1].userSettingsId, fault)
       IN  reqs' = [reqs EXCEPT ![r] =
               IF found = <<>>
               THEN Answer(q, 404, "User settings not found", <<>>)
               ELSE [q EXCEPT !.pc = "updateIncomeSession",
                              !.settings = found,
                              !.now = clock,
                              !.earned = Earned(found[1], clock,
                                                q.session[1].sessionStart)]]
    /\ UNCHANGED <<settings, sessions, clock>>

\* the settlement that also moves sessionStart to the settlement instant
SettledRestarted(doc, q) ==
    [doc EXCEPT !.totalEarned = q.earned, !.sessionEnd = q.now,
                !.isActive = FALSE, !.sessionStart = q.now]

\* the settlement that leaves sessionEnd out of the update
SettledWithoutEnd(doc, q) ==
    [doc EXCEPT !.totalEarned = q.earned, !.isActive = FALSE]

\* the document updateIncomeSession(id, {totalEarned, sessionEnd, isActive})
\* leaves
Settled(doc, q) ==
    [doc EXCEPT !.totalEarned = q.earned, !.sessionEnd = q.now, !.isActive = FALSE]

\* the update; a fault is caught and gives undefined, and so is the cast
\* error mongoose raises for a Number field given NaN; the handler answers
\* res.json(updatedSession) either way
EndSessionUpdate(r, fault) ==
    /\ reqs[r].pc = "updateIncomeSession"
    /\ LET q == Faulted(reqs[r], fault) IN
       IF fault \/ q.earned = NaN
       THEN /\ reqs' = [reqs EXCEPT ![r] = Answer(q, 200, "", <<>>)]
            /\ UNCHANGED sessions
       ELSE /\ sessions' = [sessions EXCEPT ![q.id] = Settled(@, q)]
            /\ reqs' = [reqs EXCEPT ![r] =
                           Answer(q, 200, "", <<Settled(sessions[q.id], q)>>)]
    /\ UNCHANGED <<settings, clock>>

(***************************************************************************)
(* GET /api/calculate-rates/:userSettingsId                                *)
(***************************************************************************)
CalculateRates(r, id, fault) ==
    /\ reqs[r].pc = "idle"
    /\ LET q == Faulted(Begin(r, "calculateRates", id), fault)
           found == getUserSettings(id, fault)
       IN  reqs' = [reqs EXCEPT ![r] =
               IF found = <<>>
               THEN Answer(q, 404, "Settings not found", <<>>)
               ELSE Answer([q EXCEPT !.settings = found], 200, "",
                           <<Rates(found[1])>>)]
    /\ UNCHANGED <<settings, sessions, clock>>

(***************************************************************************)
(* The environment: an answer is delivered, the wall clock changes.        *)
(***************************************************************************)
\* the answer of request slot r is delivered; the slot is free again
Return(r) ==
    /\ reqs[r].pc = "done"
    /\ reqs' = [reqs EXCEPT ![r] = IdleReq]
    /\ UNCHANGED <<settings, sessions, clock>>

\* the wall clock moves; it is not monotonic (it can be set back)
Tick ==
    /\ \E t \in Times \ {clock} : clock' = t
    /\ UNCHANGED <<settings, sessions, reqs>>

\* a new request takes the lowest free slot (the slots are interchangeable)
Free(r) == \A q \in Reqs : q < r => reqs[q].pc # "idle"

\* no other request is in flight or waits for delivery
Alone(r) == \A q \in Reqs \ {r} : reqs[q].pc = "idle"

\* a new request may enter slot r; with seq the requests run one after the
\* other
Admit(r, seq) == Free(r) /\ (seq => Alone(r))

\* The steps of the handlers in slot r.  F: whether the store operation of
\* the step faults; seq: whether the requests run one after the other.

\* one step of the user-settings handlers
SettingsStep(r, F, seq) ==
    \/ \E b \in SettingsBodies, fault \in F :
          Admit(r, seq) /\ CreateUserSettings(r, b, fault)
    \/ \E id \in CfgIdVals, fault \in F :
          Admit(r, seq) /\ GetUserSettings(r, id, fault)
    \/ \E id \in CfgIdVals, b \in SettingsBodies, fault \in F :
          Admit(r, seq) /\ UpdateUserSettings(r, id, b, fault)

\* one step of the start-session handler
StartStep(r, F, seq) ==
    \/ \E u \in Opt(CfgIdVals), fault \in F :
          Admit(r, seq) /\ StartSessionLookup(r, u, fault)
    \/ \E fault \in F : StartSessionCreate(r, fault)

\* one step of the end-session handler
EndStep(r, F, seq) ==
    \/ \E id \in SessIdVals, fault \in F :
          Admit(r, seq) /\ EndSessionGetSession(r, id, fault)
    \/ \E fault \in F : EndSessionGetSettings(r, fault)
    \/ \E fault \in F : EndSessionUpdate(r, fault)

\* one step of the income-session handlers
SessionStep(r, F, seq) ==
    \/ StartStep(r, F, seq)
    \/ \E uid \in CfgIdVals, fault \in F :
          Admit(r, seq) /\ GetActiveSession(r, uid, fault)
    \/ \E id \in SessIdVals, total \in EarnedVals, fault \in F :
          Admit(r, seq) /\ UpdateEarnings(r, id, total, fault)
    \/ EndStep(r, F, seq)

\* the calculate-rates handler
RatesStep(r, F, seq) ==
    \E id \in CfgIdVals, fault \in F : Admit(r, seq) /\ CalculateRates(r, id, fault)

\* every handler, any interleaving, store faults at any operation
Next ==
    \/ Tick
    \/ \E r \in Reqs :
          \/ SettingsStep(r, BOOLEAN, FALSE)
          \/ SessionStep(r, BOOLEAN, FALSE)
          \/ RatesStep(r, BOOLEAN, FALSE)
          \/ Return(r)

FullSpec == Init /\ [][Next]_vars

\* the body of POST /api/user-settings {monthlySalary: 5000, dailyHours: 8,
\* weeklyDays: 5}
ScenarioBody ==
    [monthlySalary |-> <<5000>>, dailyHours |-> <<8>>, weeklyDays |-> <<5>>,
     isHoliday |-> <<>>]

\* the session workload starts with that configuration stored (the state
\* after the request above, answered at time 0) and no session
SessionInit ==
    /\ clock = 0
    /\ settings = <<[id |-> 1, monthlySalary |-> 5000, dailyHours |-> 8,
                    weeklyDays |-> 5, isHoliday |-> FALSE,
                    createdAt |-> 0, updatedAt |-> 0]>>
    /\ sessions = <<>>
    /\ reqs = [r \in Reqs |-> IdleReq]

\* the session workload: sessions are started, read, updated and ended, in
\* any interleaving, with store faults
SessionNext ==
    Tick \/ \E r \in Reqs : SessionStep(r, BOOLEAN, FALSE) \/ Return(r)

Spec == SessionInit /\ [][SessionNext]_vars

\* the session workload with a store that never faults
NoFaultNext ==
    Tick \/ \E r \in Reqs : SessionStep(r, {FALSE}, FALSE) \/ Return(r)

NoFaultSpec == SessionInit /\ [][NoFaultNext]_vars

\* the session workload with the requests one after the other
SeqNext ==
    Tick \/ \E r \in Reqs : SessionStep(r, BOOLEAN, TRUE) \/ Return(r)

SeqSpec == SessionInit /\ [][SeqNext]_vars

\* the configuration workload: configurations are created, read and
\* updated, one request after the other (each of these handlers is a single
\* store operation), with store faults
SettingsNext ==
    Tick \/ \E r \in Reqs : SettingsStep(r, BOOLEAN, TRUE) \/ Return(r)

SettingsSpec == Init /\ [][SettingsNext]_vars

\* the pricing workload: the stored configuration is updated while sessions
\* are started and ended, one request after the other, the store answering
PricingNext ==
    \/ Tick
    \/ \E r \in Reqs :
          \/ SettingsStep(r, {FALSE}, TRUE)
          \/ StartStep(r, {FALSE}, TRUE)
          \/ EndStep(r, {FALSE}, TRUE)
          \/ Return(r)

PricingSpec == SessionInit /\ [][PricingNext]_vars

(***************************************************************************)
(* The handlers over the in-memory variant, `storage = new MemStorage()`.  *)
(* Its operations are async functions over two Maps that never wait, so a  *)
(* handler runs from its first line to its answer before another request   *)
(* is taken up, and no operation faults.  MemStorage defines the seven     *)
(* operations of IStorage; it differs from MongoStorage, for the handlers, *)
(* in the two lookups by id that only MongoStorage defines.                *)
(***************************************************************************)
\* the methods class MemStorage defines
MemStorageOps ==
    {"getUserSettings", "createUserSettings", "updateUserSettings",
     "getActiveSession", "createIncomeSession", "updateIncomeSession",
     "endIncomeSession"}

\* DELETE /api/income-session/:id over MemStorage: the first statement calls
\* storage.getIncomeSessionById; where the method is missing the call throws
\* a TypeError, which the handler's catch answers with 500
MemEndSession(r, id) ==
    IF "getIncomeSessionById" \in MemStorageOps
    THEN EndSessionGetSession(r, id, FALSE)
    ELSE /\ reqs[r].pc = "idle"
         /\ reqs' = [reqs EXCEPT ![r] =
                        Answer(Begin(r, "endSession", id), 500,
                               "Internal server error", <<>>)]
         /\ UNCHANGED <<settings, sessions, clock>>

\* the session workload over MemStorage
MemNext ==
    \/ Tick
    \/ \E r \in Reqs :
          \/ StartStep(r, {FALSE}, TRUE)
          \/ \E uid \in CfgIdVals : Admit(r, TRUE) /\ GetActiveSession(r, uid, FALSE)
          \/ \E id \in SessIdVals, total \in EarnedVals :
                Admit(r, TRUE) /\ UpdateEarnings(r, id, total, FALSE)
          \/ \E id \in SessIdVals : Admit(r, TRUE) /\ MemEndSession(r, id)
          \/ Return(r)

MemSpec == SessionInit /\ [][MemNext]_vars

(***************************************************************************)
(* The two computations on their own: over any valid configuration and any *)
(* session start, rates are calculated and the session is ended.           *)
(***************************************************************************)
CalcSalaries == {1, 433, 3000, 5000}
CalcHours == {1, 8, 24}
CalcDays == {1, 5, 7}
\* the products below stay within TLC's 32-bit integers up to this many
\* hours a week
CalcWeekHours == 120
CalcStarts == {0, 1, 30000, 90000}

CalcInit ==
    /\ clock = 0
    /\ \E m \in CalcSalaries, h \in CalcHours, d \in CalcDays :
          /\ h * d <= CalcWeekHours
          /\ settings = <<[id |-> 1, monthlySalary |-> m, dailyHours |-> h,
                        weeklyDays |-> d, isHoliday |-> FALSE,
                        createdAt |-> 0, updatedAt |-> 0]>>
    /\ \E t \in CalcStarts :
          sessions = <<[id |-> 1, userSettingsId |-> 1, sessionStart |-> t,
                        sessionEnd |-> NoDate, totalEarned |-> 0,
                        isActive |-> TRUE]>>
    /\ reqs = [r \in Reqs |-> IdleReq]

CalcNext ==
    \/ Tick
    \/ \E r \in Reqs :
          \/ RatesStep(r, {FALSE}, TRUE)
          \/ EndStep(r, {FALSE}, TRUE)
          \/ Return(r)

CalcSpec == CalcInit /\ [][CalcNext]_vars

(***************************************************************************)
(* The two computations an hour after time 0: the sessions that started    *)
(* at time 0 are settled over 60 minutes.                                  *)
(***************************************************************************)
HourMs == 60 * 60000

HourInit ==
    /\ clock = HourMs
    /\ \E m \in CalcSalaries, h \in CalcHours, d \in CalcDays :
          /\ h * d <= CalcWeekHours
          /\ settings = <<[id |-> 1, monthlySalary |-> m, dailyHours |-> h,
                        weeklyDays |-> d, isHoliday |-> FALSE,
                        createdAt |-> 0, updatedAt |-> 0]>>
    /\ \E t \in Times :
          sessions = <<[id |-> 1, userSettingsId |-> 1, sessionStart |-> t,
                        sessionEnd |-> NoDate, totalEarned |-> 0,
                        isActive |-> TRUE]>>
    /\ reqs = [r \in Reqs |-> IdleReq]

HourSpec == HourInit /\ [][CalcNext]_vars

(***************************************************************************)
(* The two computations on a configuration document that userSettingsSchema *)
(* admits (its numbers are only required) but the request validation would *)
(* not: written to the collection by another client of the database.       *)
(***************************************************************************)
StoredSalaries == {3000, 5000}
StoredHours == {0, 8}
StoredDays == {0, 5}

UnvalidatedInit ==
    /\ clock = 0
    /\ \E m \in StoredSalaries, h \in StoredHours, d \in StoredDays :
          settings = <<[id |-> 1, monthlySalary |-> m, dailyHours |-> h,
                        weeklyDays |-> d, isHoliday |-> FALSE,
                        createdAt |-> 0, updatedAt |-> 0]>>
    /\ \E t \in Times :
          sessions = <<[id |-> 1, userSettingsId |-> 1, sessionStart |-> t,
                        sessionEnd |-> NoDate, totalEarned |-> 0,
                        isActive |-> TRUE]>>
    /\ reqs = [r \in Reqs |-> IdleReq]

UnvalidatedSpec == UnvalidatedInit /\ [][CalcNext]_vars

(***************************************************************************)
(* Properties.                                                             *)
(***************************************************************************)
\* C1: in every reachable state there is at most one session with
\* isActive = true per userSettingsId.
C1_OneActivePerConfig ==
    \A u \in CfgIdVals : Cardinality(ActiveIds(u)) <= 1

\* C2: every session is settled at most once: once the sessionEnd of a
\* session is set, no later write of an end-session request overwrites it.
C2_SettledOnce ==
    [][\A i \in DOMAIN sessions :
          sessions[i].sessionEnd # NoDate
          => sessions'[i].sessionEnd = sessions[i].sessionEnd]_vars

\* C3: whenever an end-session request answers with success, the session it
\* returns and the session stored under that id are inactive, with
\* sessionEnd the settlement instant and totalEarned the settled amount; the
\* answer is never empty.
C3_EndAnswer ==
    [][\A r \in Reqs :
          (/\ reqs[r].pc = "updateIncomeSession"
           /\ reqs'[r].pc = "done"
           /\ reqs'[r].status = 200)
          => /\ reqs'[r].body # <<>>
             /\ ~reqs'[r].body[1].isActive
             /\ reqs'[r].body[1].sessionEnd = reqs[r].now
             /\ reqs'[r].body[1].totalEarned = reqs[r].earned
             /\ sessions'[reqs[r].id] = reqs'[r].body[1]]_vars

\* C6: an end-session request answers not-found and changes no stored
\* session or configuration when, at its lookup, the session id is not
\* stored or the session is inactive, or the session's configuration is not
\* stored.
C6_EndNotFound ==
    [][\A r \in Reqs :
          /\ (/\ reqs[r].pc = "idle"
              /\ reqs'[r].kind = "endSession"
              /\ \/ reqs'[r].id \notin DOMAIN sessions
                 \/ ~sessions[reqs'[r].id].isActive)
             => /\ reqs'[r].pc = "done" /\ reqs'[r].status = 404
                /\ sessions' = sessions /\ settings' = settings
          /\ (/\ reqs[r].pc = "getUserSettingsById"
              /\ reqs'[r].pc # "getUserSettingsById"
              /\ reqs[r].session[1].userSettingsId \notin DOMAIN settings)
             => /\ reqs'[r].pc = "done" /\ reqs'[r].status = 404
                /\ sessions' = sessions /\ settings' = settings]_vars

\* an end-session request was refused, without any store fault, for a stored
\* session that is inactive, and another for a session whose configuration
\* is not stored
C6_Witness ==
    \E r, q \in Reqs :
        /\ reqs[r].kind = "endSession" /\ reqs[r].pc = "done"
        /\ reqs[r].status = 404 /\ ~reqs[r].faulted
        /\ reqs[r].id \in DOMAIN sessions /\ ~sessions[reqs[r].id].isActive
        /\ reqs[q].kind = "endSession" /\ reqs[q].pc = "done"
        /\ reqs[q].msg = "User settings not found" /\ ~reqs[q].faulted
        /\ sessions[reqs[q].id].isActive

\* C8: in every reachable state an ended session holds the amount settlement
\* computes for its sessionEnd (the configurations of this workload never
\* change, so that amount is the one for the stored configuration).
C8_EndedHoldsSettled ==
    \A i \in DOMAIN sessions :
        ~sessions[i].isActive
        => sessions[i].totalEarned =
              Earned(settings[sessions[i].userSettingsId],
                     sessions[i].sessionEnd, sessions[i].sessionStart)

\* C9: the totalEarned written by end-session is never negative.
C9_NonNegative ==
    \A r \in Reqs :
        (/\ reqs[r].kind = "endSession" /\ reqs[r].pc = "done"
         /\ reqs[r].body # <<>>)
        => reqs[r].body[1].totalEarned >= 0

\* C10: a request one of whose store operations faulted ends with the
\* generic failure, status 500.
C10_FaultIs500 ==
    \A r \in Reqs :
        (reqs[r].pc = "done" /\ reqs[r].faulted) => reqs[r].status = 500

\* c is an integer nearest to num / den (den > 0)
Nearest(c, num, den) == 2 * Abs(c * den - num) <= den

\* C4: for a settlement instant now >= sessionStart, the settled amount is
\* elapsedMs / 60000 * (monthlySalary / (dailyHours * weeklyDays * 4.33)) / 60
\* rounded to two decimals: in hundredths, the integer nearest to
\* elapsedMs * monthlySalary / (360 * 433 * dailyHours * weeklyDays), with
\* the elapsed time not cut to whole minutes and the rate not rounded.
C4_SettledAmount ==
    \A r \in Reqs :
        (/\ reqs[r].pc = "updateIncomeSession"
         /\ reqs[r].now >= reqs[r].session[1].sessionStart)
        => LET s == reqs[r].settings[1]
               e == reqs[r].now - reqs[r].session[1].sessionStart
           IN  Nearest(reqs[r].earned, e * s.monthlySalary,
                       360 * 433 * s.dailyHours * s.weeklyDays)

\* a settlement over a positive time that is no whole number of minutes
C4_Witness ==
    \E r \in Reqs :
        /\ reqs[r].pc = "updateIncomeSession"
        /\ reqs[r].now > reqs[r].session[1].sessionStart
        /\ (reqs[r].now - reqs[r].session[1].sessionStart) % 60000 # 0
        /\ reqs[r].earned > 0

\* C5: calculate-rates answers, for the stored configuration, the two-decimal
\* roundings of dailyHours * weeklyDays * 4.33, monthlySalary / monthlyHours,
\* hourlyRate / 60 and hourlyRate * dailyHours, each taken from the unrounded
\* values (the configurations of this workload never change).
C5_Rates ==
    \A r \in Reqs :
        (/\ reqs[r].kind = "calculateRates" /\ reqs[r].pc = "done"
         /\ reqs[r].status = 200)
        => LET s == settings[reqs[r].id]
               b == reqs[r].body[1]
               mh == 433 * s.dailyHours * s.weeklyDays
           IN  /\ b.monthlyHours = mh
               /\ Nearest(b.perHour, 10000 * s.monthlySalary, mh)
               /\ Nearest(b.perMinute, 10000 * s.monthlySalary, 60 * mh)
               /\ Nearest(b.perDay, 10000 * s.monthlySalary * s.dailyHours, mh)

\* rates were answered whose perDay is not the rounded perHour times the
\* daily hours
C5_Witness ==
    \E r \in Reqs :
        /\ reqs[r].kind = "calculateRates" /\ reqs[r].pc = "done"
        /\ reqs[r].status = 200
        /\ reqs[r].body[1].perDay
              # reqs[r].body[1].perHour * settings[reqs[r].id].dailyHours

\* C7: a start-session request that runs to its answer, with no other
\* request in flight, while its configuration has an active session, answers
\* that session and adds no session.
C7_StartReturnsExisting ==
    [][\A r \in Reqs :
          (/\ reqs'[r].kind = "startSession"
           /\ reqs[r].pc # "done" /\ reqs'[r].pc = "done"
           /\ ActiveIds(reqs'[r].id) # {})
          => /\ Len(sessions') = Len(sessions)
             /\ reqs'[r].status = 200
             /\ reqs'[r].body # <<>>
             /\ \E i \in ActiveIds(reqs'[r].id) : reqs'[r].body[1] = sessions[i]]_vars

\* the configuration has no monthly hours
ZeroHours(s) == s.dailyHours * s.weeklyDays = 0

\* the amount is Infinity, -Infinity or NaN
NotFiniteAmount(x) == x = Infinity \/ x = -Infinity \/ x = NaN

\* C11: on a configuration whose monthlyHours is zero, calculate-rates fails
\* with an error answer, end-session fails before it writes, and no stored
\* session holds an amount that is infinite or not a number.
C11_InvalidConfiguration ==
    /\ \A r \in Reqs :
          (/\ reqs[r].kind = "calculateRates" /\ reqs[r].pc = "done"
           /\ reqs[r].id \in DOMAIN settings
           /\ ZeroHours(settings[reqs[r].id]))
          => reqs[r].status >= 400
    /\ \A r \in Reqs :
          reqs[r].pc = "updateIncomeSession" => ~ZeroHours(reqs[r].settings[1])
    /\ \A i \in DOMAIN sessions : ~NotFiniteAmount(sessions[i].totalEarned)

\* the stored configuration is within the bounds of the data model
InBounds(c) ==
    /\ c.monthlySalary > 0
    /\ 0 < c.dailyHours /\ c.dailyHours <= 24
    /\ 0 < c.weeklyDays /\ c.weeklyDays <= 7

\* a field given in the request body is outside those bounds
OutOfBounds(b) ==
    \/ b.monthlySalary # <<>> /\ b.monthlySalary[1] <= 0
    \/ b.dailyHours # <<>> /\ (b.dailyHours[1] <= 0 \/ b.dailyHours[1] > 24)
    \/ b.weeklyDays # <<>> /\ (b.weeklyDays[1] <= 0 \/ b.weeklyDays[1] > 7)

\* C12: after every step of the create-configuration and update-configuration
\* requests every stored configuration is within the bounds, and a request
\* whose body has a field out of bounds answers 400 and stores nothing.
C12_StoredInBounds ==
    [][/\ \A i \in DOMAIN settings' : InBounds(settings'[i])
       /\ \A r \in Reqs :
             (reqs[r].pc = "idle" /\ reqs'[r].pc = "done")
             => \A b \in SettingsBodies, fault \in BOOLEAN :
                   (/\ OutOfBounds(b)
                    /\ \/ CreateUserSettings(r, b, fault)
                       \/ \E id \in CfgIdVals : UpdateUserSettings(r, id, b, fault))
                   => /\ reqs'[r].status = 400
                      /\ settings' = settings]_vars

\* an update of a stored configuration, itself updated before, was rejected
\* as invalid
C12_Witness ==
    \E r \in Reqs :
        /\ reqs[r].kind = "updateUserSettings" /\ reqs[r].pc = "done"
        /\ reqs[r].status = 400
        /\ reqs[r].id \in DOMAIN settings
        /\ settings[reqs[r].id].updatedAt # settings[reqs[r].id].createdAt

\* the configuration {monthlySalary: 5000, dailyHours: 8, weeklyDays: 5}
IsScenario(c) ==
    c.monthlySalary = 5000 /\ c.dailyHours = 8 /\ c.weeklyDays = 5

\* calculate-rates answered for that configuration
ScenarioRates(r) ==
    /\ reqs[r].kind = "calculateRates" /\ reqs[r].pc = "done"
    /\ reqs[r].status = 200
    /\ IsScenario(settings[reqs[r].id])

\* C13 as stated: for the configuration 5000 / 8 / 5, calculate-rates
\* answers monthlyHours = 173.2, perHour = 28.86, perMinute = 0.48 and
\* perDay = 230.88.
C13_ScenarioRatesAsStated ==
    \A r \in Reqs :
        ScenarioRates(r)
        => reqs[r].body[1] = [monthlyHours |-> 17320, perHour |-> 2886,
                              perMinute |-> 48, perDay |-> 23088]

\* C13, amended: for the configuration 5000 / 8 / 5, calculate-rates answers
\* monthlyHours = 173.2, perHour = 28.87, perMinute = 0.48 and
\* perDay = 230.95.
C13_ScenarioRates ==
    \A r \in Reqs :
        ScenarioRates(r)
        => reqs[r].body[1] = [monthlyHours |-> 17320, perHour |-> 2887,
                              perMinute |-> 48, perDay |-> 23095]

\* calculate-rates answered for the configuration 5000 / 8 / 5
C13_Witness == \E r \in Reqs : ScenarioRates(r)

\* session i of the configuration 5000 / 8 / 5 was settled 60 minutes after
\* its start
ScenarioSettled(i) ==
    /\ ~sessions[i].isActive
    /\ sessions[i].sessionEnd - sessions[i].sessionStart = HourMs
    /\ IsScenario(settings[sessions[i].userSettingsId])

\* C14 as stated: for the configuration 5000 / 8 / 5, a session settled 60
\* minutes after its start gets totalEarned = 28.86.
C14_ScenarioEarnedAsStated ==
    \A i \in DOMAIN sessions : ScenarioSettled(i) => sessions[i].totalEarned = 2886

\* C14, amended: for the configuration 5000 / 8 / 5, a session settled 60
\* minutes after its start gets totalEarned = 28.87.
C14_ScenarioEarned ==
    \A i \in DOMAIN sessions : ScenarioSettled(i) => sessions[i].totalEarned = 2887

\* a session of the configuration 5000 / 8 / 5 was settled 60 minutes after
\* its start
C14_Witness == \E i \in DOMAIN sessions : ScenarioSettled(i)

\* calculate-rates answered for a stored configuration
RatesAnswered(r) ==
    /\ reqs[r].kind = "calculateRates" /\ reqs[r].pc = "done"
    /\ reqs[r].status = 200

\* perHour * monthlyHours - monthlySalary of the answer, in ten-thousandths
ProductGap(r) ==
    reqs[r].body[1].perHour * reqs[r].body[1].monthlyHours
       - 10000 * settings[reqs[r].id].monthlySalary

\* C15 as stated: the returned perHour times the returned monthlyHours
\* differs from monthlySalary by at most 0.01.
C15_ProductAsStated ==
    \A r \in Reqs : RatesAnswered(r) => Abs(ProductGap(r)) <= 100

\* C15, amended: the returned perHour times the returned monthlyHours differs
\* from monthlySalary by at most 0.005 * (monthlyHours + perHour) + 0.01,
\* the rounding error of each factor scaled by the other.
C15_Product ==
    \A r \in Reqs :
        RatesAnswered(r)
        => 2 * Abs(ProductGap(r))
              <= reqs[r].body[1].monthlyHours + reqs[r].body[1].perHour + 200

\* rates were answered whose perHour times monthlyHours is not the salary
C15_Witness == \E r \in Reqs : RatesAnswered(r) /\ ProductGap(r) # 0

\* the settlement of request r, computed at an instant now >= sessionStart
Settling(r) ==
    /\ reqs[r].pc = "updateIncomeSession"
    /\ reqs[r].now >= reqs[r].session[1].sessionStart

\* instants later than the settlement instant by these numbers of
\* milliseconds are compared with it
LaterBy == {1, 1000, 60000}

\* the amount settlement computes for request r at an instant d ms later
EarnedLater(r, d) ==
    Earned(reqs[r].settings[1], reqs[r].now + d, reqs[r].session[1].sessionStart)

\* C16 as stated: for two settlement instants now1 < now2, both at or after
\* sessionStart, the amount for now2 is strictly greater than the amount for
\* now1.
C16_StrictlyMonotonicAsStated ==
    \A r \in Reqs :
        Settling(r) => \A d \in LaterBy : EarnedLater(r, d) > reqs[r].earned

\* C16, amended: for two settlement instants now1 < now2, both at or after
\* sessionStart, the amount for now2 is greater than or equal to the amount
\* for now1.
C16_Monotonic ==
    \A r \in Reqs :
        Settling(r) => \A d \in LaterBy : EarnedLater(r, d) >= reqs[r].earned

\* a settlement for which one later instant gives the same amount and
\* another a greater one
C16_Witness ==
    \E r \in Reqs :
        /\ Settling(r)
        /\ \E d \in LaterBy : EarnedLater(r, d) = reqs[r].earned
        /\ \E d \in LaterBy : EarnedLater(r, d) > reqs[r].earned

\* C17: a calculate-rates request for a configuration id that is not stored
\* answers 404 without rates and changes no stored state.
C17_RatesNotFound ==
    [][\A r \in Reqs :
          (/\ reqs[r].pc = "idle"
           /\ reqs'[r].kind = "calculateRates"
           /\ reqs'[r].id \notin DOMAIN settings)
          => /\ reqs'[r].pc = "done" /\ reqs'[r].status = 404
             /\ reqs'[r].body = <<>>
             /\ settings' = settings /\ sessions' = sessions]_vars

\* calculate-rates answered 404 for an id that is not stored, while a
\* configuration is stored
C17_Witness ==
    \E r \in Reqs :
        /\ reqs[r].kind = "calculateRates" /\ reqs[r].pc = "done"
        /\ reqs[r].status = 404
        /\ reqs[r].id \notin DOMAIN settings
        /\ settings # <<>>

\* C18: no step changes the sessionStart of a stored session.
C18_StartImmutable ==
    [][\A i \in DOMAIN sessions :
          sessions'[i].sessionStart = sessions[i].sessionStart]_vars

\* a session was ended at an instant other than its start, and its earnings
\* were updated
C18_Witness ==
    \E i \in DOMAIN sessions :
        /\ ~sessions[i].isActive
        /\ sessions[i].sessionEnd # sessions[i].sessionStart
        /\ sessions[i].totalEarned \in EarnedVals

\* this step is the handling of an update-earnings request in slot r
UpdateEarningsStep(r) ==
    reqs[r].pc = "idle" /\ reqs'[r].kind = "updateEarnings"

\* C19: an update-earnings request on a stored session (the store
\* answering) sets its totalEarned to the value supplied, answers that
\* session, and changes no other field of it and no other session; on an id
\* that is not stored it answers 404 and changes nothing.
C19_UpdateEarningsFrame ==
    [][\A r \in Reqs :
          UpdateEarningsStep(r)
          => LET id == reqs'[r].id IN
             IF id \in DOMAIN sessions /\ ~reqs'[r].faulted
             THEN /\ reqs'[r].status = 200
                  /\ sessions'[id].totalEarned \in EarnedVals
                  /\ reqs'[r].body = <<sessions'[id]>>
                  /\ sessions' = [sessions EXCEPT
                                     ![id].totalEarned = sessions'[id].totalEarned]
                  /\ settings' = settings
             ELSE /\ reqs'[r].status = 404
                  /\ sessions' = sessions /\ settings' = settings]_vars

\* update-earnings was answered for an active session that now holds the
\* value supplied, and another was answered 404 for an id that is not stored
C19_Witness ==
    \E r, q \in Reqs :
        /\ reqs[r].kind = "updateEarnings" /\ reqs[r].pc = "done"
        /\ reqs[r].status = 200
        /\ sessions[reqs[r].id].isActive
        /\ sessions[reqs[r].id].totalEarned \in EarnedVals
        /\ reqs[q].kind = "updateEarnings" /\ reqs[q].pc = "done"
        /\ reqs[q].status = 404 /\ ~reqs[q].faulted
        /\ reqs[q].id \notin DOMAIN sessions

\* C20: in every reachable state the userSettingsId of every stored session
\* is the id of a stored configuration.
C20_SessionsReferToConfig ==
    \A i \in DOMAIN sessions : sessions[i].userSettingsId \in DOMAIN settings

\* C21: the settlement of a session is priced, for its whole elapsed time,
\* at the configuration as stored when the handler reads it and takes now:
\* in hundredths, the integer nearest to
\* elapsedMs * monthlySalary / (360 * 433 * dailyHours * weeklyDays) for the
\* stored monthlySalary, dailyHours and weeklyDays; and that amount is the
\* one written.
C21_PricedAsStored ==
    [][\A r \in Reqs :
          /\ (/\ reqs[r].pc = "getUserSettingsById"
              /\ reqs'[r].pc = "updateIncomeSession"
              /\ clock >= reqs[r].session[1].sessionStart)
             => LET c == settings[reqs[r].session[1].userSettingsId]
                IN  Nearest(reqs'[r].earned,
                            (clock - reqs[r].session[1].sessionStart) * c.monthlySalary,
                            360 * 433 * c.dailyHours * c.weeklyDays)
          /\ (/\ reqs[r].pc = "updateIncomeSession"
              /\ reqs'[r].pc = "done"
              /\ reqs'[r].body # <<>>)
             => sessions'[reqs[r].id].totalEarned = reqs[r].earned]_vars

\* a session is being settled over a positive time, at a salary the
\* configuration was given after the session started
C21_Witness ==
    \E r \in Reqs :
        /\ reqs[r].pc = "updateIncomeSession"
        /\ reqs[r].now > reqs[r].session[1].sessionStart
        /\ reqs[r].settings[1].updatedAt > reqs[r].session[1].sessionStart
        /\ reqs[r].settings[1].monthlySalary # 5000
        /\ reqs[r].earned > 0

\* C22: the in-memory and the durable variant are interchangeable: every
\* step of a handler over the in-memory variant is a step of the same
\* handler over the durable variant when the store does not fault (the same
\* answer and the same stored documents, ids and timestamps being modelled
\* alike in both).
C22_VariantsInterchangeable == [][NoFaultNext]_vars

\* field f of the configuration after the update is the value given in the
\* body, or the previous value when the body omits it
FieldPatched(new, old, given) ==
    new = IF given = <<>> THEN old ELSE given[1]

\* C23: an update-configuration request that succeeds changes only the
\* fields present in its body and updatedAt: a field that is omitted
\* (isHoliday included), the id and createdAt keep their values; with a
\* valid body and an id that is not stored it answers 404; and a request
\* that does not succeed changes nothing.
C23_PartialUpdateFrame ==
    [][\A r \in Reqs :
          (reqs[r].pc = "idle" /\ reqs'[r].kind = "updateUserSettings")
          => \A b \in SettingsBodies, fault \in BOOLEAN :
                LET id == reqs'[r].id IN
                UpdateUserSettings(r, id, b, fault)
                => /\ reqs'[r].status = 200
                      => /\ DOMAIN settings' = DOMAIN settings
                         /\ \A i \in DOMAIN settings \ {id} : settings'[i] = settings[i]
                         /\ FieldPatched(settings'[id].monthlySalary,
                                         settings[id].monthlySalary, b.monthlySalary)
                         /\ FieldPatched(settings'[id].dailyHours,
                                         settings[id].dailyHours, b.dailyHours)
                         /\ FieldPatched(settings'[id].weeklyDays,
                                         settings[id].weeklyDays, b.weeklyDays)
                         /\ FieldPatched(settings'[id].isHoliday,
                                         settings[id].isHoliday, b.isHoliday)
                         /\ settings'[id].id = settings[id].id
                         /\ settings'[id].createdAt = settings[id].createdAt
                         /\ settings'[id].updatedAt = clock
                         /\ reqs'[r].body = <<settings'[id]>>
                   /\ reqs'[r].status # 200 => settings' = settings
                   /\ (id \notin DOMAIN settings /\ ~OutOfBounds(b))
                      => reqs'[r].status = 404]_vars

\* an update succeeded, after the clock moved, on a configuration that holds
\* isHoliday = true and the salary 3000
C23_Witness ==
    \E r \in Reqs :
        /\ reqs[r].kind = "updateUserSettings" /\ reqs[r].pc = "done"
        /\ reqs[r].status = 200
        /\ settings[reqs[r].id].isHoliday
        /\ settings[reqs[r].id].monthlySalary = 3000
        /\ settings[reqs[r].id].updatedAt # settings[reqs[r].id].createdAt

\* C24: a session whose isActive is false stays inactive at every step.
C24_InactiveStaysInactive ==
    [][\A i \in DOMAIN sessions :
          ~sessions[i].isActive => ~sessions'[i].isActive]_vars

\* a configuration has an ended session and a session created after it that
\* is active
C24_Witness ==
    \E i, j \in DOMAIN sessions :
        /\ i < j
        /\ sessions[i].userSettingsId = sessions[j].userSettingsId
        /\ ~sessions[i].isActive
        /\ sessions[j].isActive

\* C25: after every step a session has its sessionEnd set exactly when its
\* isActive is false, and a session a step creates is active, without
\* sessionEnd and with totalEarned = 0.
C25_EndSetIffInactive ==
    [][/\ \A i \in DOMAIN sessions' :
             (sessions'[i].sessionEnd # NoDate) <=> ~sessions'[i].isActive
       /\ \A i \in DOMAIN sessions' \ DOMAIN sessions :
             /\ sessions'[i].isActive
             /\ sessions'[i].sessionEnd = NoDate
             /\ sessions'[i].totalEarned = 0]_vars

\* one session is ended with its sessionEnd set while another is active
\* with none
C25_Witness ==
    \E i, j \in DOMAIN sessions :
        /\ ~sessions[i].isActive /\ sessions[i].sessionEnd # NoDate
        /\ sessions[j].isActive /\ sessions[j].sessionEnd = NoDate

\* C26: a start-session request whose active-session lookup faulted in the
\* store adds no session to a configuration that has an active one.
C26_FaultedLookupCreatesNone ==
    [][\A r \in Reqs :
          (/\ reqs[r].kind = "startSession"
           /\ reqs[r].pc = "createIncomeSession"
           /\ reqs[r].faulted
           /\ ActiveIds(reqs[r].id) # {})
          => sessions' = sessions]_vars

\* C27: every active session can be ended: an end-session request that read
\* the session as active and meets no store fault goes on to the settlement,
\* and its write leaves the session inactive.
C27_ActiveCanBeEnded ==
    [][\A r \in Reqs :
          (reqs[r].kind = "endSession" /\ ~reqs'[r].faulted)
          => /\ (reqs[r].pc = "getUserSettingsById" /\ reqs'[r].pc # reqs[r].pc)
                => reqs'[r].pc = "updateIncomeSession"
             /\ (reqs[r].pc = "updateIncomeSession" /\ reqs'[r].pc = "done")
                => ~sessions'[reqs[r].id].isActive]_vars

=============================================================================
